---- MODULE Spec2Model ----
(***************************************************************************)
(* docker/jupyter_lab_config.py: the JupyterLab configuration file of the  *)
(* Kubernetes deployment.  The file is a straight-line sequence of nine    *)
(* attribute assignments on c.ServerApp.  The model executes the file one  *)
(* statement at a time against a ServerApp configuration section, which is *)
(* a mapping from option names to Python values.                           *)
(***************************************************************************)
EXTENDS Integers, Sequences, FiniteSets, TLC

VARIABLES
    cfg,        \* c.ServerApp: option name -> Python value (or Unset)
    before,     \* c.ServerApp as it was when the current load began
    pc,         \* number of the file's statements executed in this load
    executed,   \* the statements executed in this load
    writes,     \* option name -> number of assignments to it in this load
    status,     \* "running", "loaded" or "error"
    loads,      \* how many times the loader has started executing the file
    accepts,    \* whether the object bound to c accepts attribute assignment
    inorder     \* whether this load has executed its statements in file order

vars == <<cfg, before, pc, executed, writes, status, loads, accepts, inorder>>

(***************************************************************************)
(* Python values.  Values of different Python types are never equal, in    *)
(* particular the integer 8888 is not the string "8888".                   *)
(***************************************************************************)
StrV(s)  == [str |-> s]
IntV(n)  == [int |-> n]
BoolV(b) == [bool |-> b]
DictV(d) == [dict |-> d]
Unset    == [unset |-> TRUE]

\* How many times the loader may execute the file.
MaxLoads == 2

\* The options the file assigns, in the order of the file.
FileOptions ==
    << "token", "password", "ip", "allow_origin", "allow_remote_access",
       "disable_check_xsrf", "port", "allow_iframe", "tornado_settings" >>

Statements == 1..Len(FileOptions)

\* Options of the server that the file does not mention.
OtherOptions == {"open_browser", "root_dir"}

Options == {FileOptions[i] : i \in Statements} \cup OtherOptions

(***************************************************************************)
(* The right-hand sides of the assignments, as written in the file.        *)
(***************************************************************************)
ContentSecurityPolicy ==
    "frame-ancestors 'self' *; script-src 'self' 'unsafe-inline' 'unsafe-eval' *; style-src 'self' 'unsafe-inline' *;"

\* Variant: the frame-ancestors directive without the wildcard.
TornadoSettingsSelfOnly ==
    DictV("headers" :>
        DictV("Content-Security-Policy" :> StrV(
            "frame-ancestors 'self'; script-src 'self' 'unsafe-inline' 'unsafe-eval' *; style-src 'self' 'unsafe-inline' *;")))

TornadoSettings ==
    DictV("headers" :>
        DictV("Content-Security-Policy" :> StrV(ContentSecurityPolicy)))

(***************************************************************************)
(* The effect of each assignment statement on the configuration section.   *)
(***************************************************************************)
AssignToken(c) == [c EXCEPT !["token"] = StrV("")]

\* Variant: the second statement repeats the target of the first.
AssignPasswordToToken(c) == [c EXCEPT !["token"] = StrV("")]

AssignPassword(c) == [c EXCEPT !["password"] = StrV("")]

\* Variant: the statement also turns off open_browser.
AssignIpAndBrowser(c) ==
    [c EXCEPT !["ip"] = StrV("0.0.0.0"), !["open_browser"] = BoolV(FALSE)]

AssignIp(c) == [c EXCEPT !["ip"] = StrV("0.0.0.0")]

\* Variant: the allowed origin is taken from the ip option.
AssignAllowOriginFromIp(c) == [c EXCEPT !["allow_origin"] = c["ip"]]

AssignAllowOrigin(c) == [c EXCEPT !["allow_origin"] = StrV("*")]

AssignAllowRemoteAccess(c) == [c EXCEPT !["allow_remote_access"] = BoolV(TRUE)]

\* Variant: the XSRF check is left enabled.
AssignEnableCheckXsrf(c) == [c EXCEPT !["disable_check_xsrf"] = BoolV(FALSE)]

AssignDisableCheckXsrf(c) == [c EXCEPT !["disable_check_xsrf"] = BoolV(TRUE)]

\* Variant: the port is written as a string.
AssignPortString(c) == [c EXCEPT !["port"] = StrV("8888")]

\* Variant: the port is set only when it has no value yet.
AssignPortDefault(c) ==
    IF c["port"] = Unset THEN [c EXCEPT !["port"] = IntV(8888)] ELSE c

AssignPort(c) == [c EXCEPT !["port"] = IntV(8888)]

AssignAllowIframe(c) == [c EXCEPT !["allow_iframe"] = BoolV(TRUE)]

\* Variant: the dictionary is merged into the one already there.
AssignTornadoSettingsMerge(c) ==
    [c EXCEPT !["tornado_settings"] =
        IF DOMAIN @ = {"dict"}
        THEN DictV(TornadoSettings.dict @@ @.dict)
        ELSE TornadoSettings]

AssignTornadoSettings(c) == [c EXCEPT !["tornado_settings"] = TornadoSettings]

\* The whole file, top to bottom, as a function of the starting section.
LoadFile(c) ==
    AssignTornadoSettings(AssignAllowIframe(AssignPort(
    AssignDisableCheckXsrf(AssignAllowRemoteAccess(AssignAllowOrigin(
    AssignIp(AssignPassword(AssignToken(c)))))))))

(***************************************************************************)
(* Starting configurations: every option is either unset or holds a value  *)
(* given to it before this file is read (a default, an earlier file, the   *)
(* command line).                                                          *)
(***************************************************************************)
PriorTornadoWithKeys ==
    DictV(("headers" :>
              DictV(("Content-Security-Policy" :> StrV("default-src 'self'"))
                    @@ ("X-Frame-Options" :> StrV("DENY"))))
          @@ ("autoreload" :> BoolV(TRUE)))

PriorTornadoOtherHeader ==
    DictV("headers" :> DictV("X-Frame-Options" :> StrV("DENY")))

TornadoPriors == {PriorTornadoWithKeys, PriorTornadoOtherHeader}

Prior(o) ==
    CASE o = "token"               -> StrV("s3cret")
      [] o = "password"            -> StrV("argon2:hash")
      [] o = "ip"                  -> StrV("localhost")
      [] o = "allow_origin"        -> StrV("")
      [] o = "allow_remote_access" -> BoolV(FALSE)
      [] o = "disable_check_xsrf"  -> BoolV(FALSE)
      [] o = "port"                -> IntV(9999)
      [] o = "allow_iframe"        -> BoolV(FALSE)
      [] o = "open_browser"        -> BoolV(FALSE)
      [] o = "root_dir"            -> StrV("/home/jovyan")

\* The configuration in which exactly the options of S are set, and
\* tornado_settings, when set, holds t.
StartConfig(S, t) ==
    [o \in Options |->
        IF o \notin S THEN Unset
        ELSE IF o = "tornado_settings" THEN t
        ELSE Prior(o)]

StartConfigs == {StartConfig(S, t) : S \in SUBSET Options, t \in TornadoPriors}

EmptyConfig == [o \in Options |-> Unset]

NoWrites == [o \in Options |-> 0]

Init ==
    /\ cfg \in StartConfigs
    /\ before = cfg
    /\ pc = 0
    /\ executed = {}
    /\ writes = NoWrites
    /\ status = "running"
    /\ loads = 1
    /\ accepts \in BOOLEAN
    /\ inorder = TRUE

(***************************************************************************)
(* One assignment statement c.ServerApp.<opt> = <value>.  The statement    *)
(* stores the value when the object accepts attribute assignment;          *)
(* otherwise Python raises and the load stops.                             *)
(***************************************************************************)
Exec(k, opt, newcfg) ==
    /\ status = "running"
    /\ k \notin executed
    /\ IF accepts
       THEN /\ cfg' = newcfg
            /\ pc' = pc + 1
            /\ executed' = executed \cup {k}
            /\ writes' = [writes EXCEPT ![opt] = @ + 1]
            /\ inorder' = (inorder /\ k = pc + 1)
            /\ status' = IF executed' = Statements THEN "loaded" ELSE "running"
       ELSE /\ status' = "error"
            /\ UNCHANGED <<cfg, pc, executed, writes, inorder>>
    /\ UNCHANGED <<before, loads, accepts>>

\* The statements in the order of the file: statement k runs after k-1 others.
SetToken             == pc = 0 /\ Exec(1, "token", AssignToken(cfg))
SetPassword          == pc = 1 /\ Exec(2, "password", AssignPassword(cfg))
SetIp                == pc = 2 /\ Exec(3, "ip", AssignIp(cfg))
SetAllowOrigin       == pc = 3 /\ Exec(4, "allow_origin", AssignAllowOrigin(cfg))
SetAllowRemoteAccess == pc = 4 /\ Exec(5, "allow_remote_access", AssignAllowRemoteAccess(cfg))
SetDisableCheckXsrf  == pc = 5 /\ Exec(6, "disable_check_xsrf", AssignDisableCheckXsrf(cfg))
\* Variant: the right-hand side of the port statement raises.
SetPortRaises ==
    /\ pc = 6
    /\ status = "running"
    /\ status' = "error"
    /\ UNCHANGED <<cfg, before, pc, executed, writes, loads, accepts, inorder>>

SetPort              == pc = 6 /\ Exec(7, "port", AssignPort(cfg))
SetAllowIframe       == pc = 7 /\ Exec(8, "allow_iframe", AssignAllowIframe(cfg))
SetTornadoSettings   == pc = 8 /\ Exec(9, "tornado_settings", AssignTornadoSettings(cfg))

LoadStep ==
    \/ SetToken
    \/ SetPassword
    \/ SetIp
    \/ SetAllowOrigin
    \/ SetAllowRemoteAccess
    \/ SetDisableCheckXsrf
    \/ SetPort
    \/ SetAllowIframe
    \/ SetTornadoSettings

\* The loader executes the file again on the configuration it produced.
Reload ==
    /\ status = "loaded"
    /\ loads < MaxLoads
    /\ loads' = loads + 1
    /\ before' = cfg
    /\ pc' = 0
    /\ executed' = {}
    /\ writes' = NoWrites
    /\ status' = "running"
    /\ UNCHANGED <<cfg, accepts, inorder>>

Next == LoadStep \/ Reload

Spec == Init /\ [][Next]_vars

\* The interpreter executes the next statement of a file it is loading.
FairSpec == Spec /\ WF_vars(LoadStep)

(***************************************************************************)
(* The same nine statements executed in an arbitrary order: a statement    *)
(* may run whenever it has not run yet in this load.                       *)
(***************************************************************************)
AnySetToken             == Exec(1, "token", AssignToken(cfg))
AnySetPassword          == Exec(2, "password", AssignPassword(cfg))
AnySetIp                == Exec(3, "ip", AssignIp(cfg))
AnySetAllowOrigin       == Exec(4, "allow_origin", AssignAllowOrigin(cfg))
AnySetAllowRemoteAccess == Exec(5, "allow_remote_access", AssignAllowRemoteAccess(cfg))
AnySetDisableCheckXsrf  == Exec(6, "disable_check_xsrf", AssignDisableCheckXsrf(cfg))
AnySetPort              == Exec(7, "port", AssignPort(cfg))
AnySetAllowIframe       == Exec(8, "allow_iframe", AssignAllowIframe(cfg))
AnySetTornadoSettings   == Exec(9, "tornado_settings", AssignTornadoSettings(cfg))

NextAnyOrder ==
    \/ AnySetToken
    \/ AnySetPassword
    \/ AnySetIp
    \/ AnySetAllowOrigin
    \/ AnySetAllowRemoteAccess
    \/ AnySetDisableCheckXsrf
    \/ AnySetPort
    \/ AnySetAllowIframe
    \/ AnySetTornadoSettings

\* Starting configurations of the reordered runs: any combination of these
\* options set beforehand, or every option set beforehand.
ReorderStartSets ==
    SUBSET {"ip", "allow_origin", "port", "tornado_settings", "open_browser"}
        \cup {Options}

InitAnyOrder ==
    /\ Init
    /\ cfg \in {StartConfig(S, t) : S \in ReorderStartSets, t \in TornadoPriors}

SpecAnyOrder == InitAnyOrder /\ [][NextAnyOrder]_vars

Loaded == status = "loaded"

AssignedOptions == {FileOptions[i] : i \in Statements}

\* Reading a Python dictionary value.
IsDict(v) == DOMAIN v = {"dict"}

Keys(v) == IF IsDict(v) THEN DOMAIN v.dict ELSE {}

Get(v, k) == IF k \in Keys(v) THEN v.dict[k] ELSE Unset

(***************************************************************************)
(* Properties of the loaded configuration.                                 *)
(***************************************************************************)

\* C1: after the file has been loaded into an initially empty ServerApp
\* section, token and password are both the empty string.
AuthenticationDisabled ==
    (Loaded /\ before = EmptyConfig) =>
        /\ cfg["token"] = StrV("")
        /\ cfg["password"] = StrV("")

AuthenticationDisabledWitness ==
    /\ Loaded
    /\ before = EmptyConfig
    /\ cfg # before

\* C2: after the load, ip is the string '0.0.0.0', port is the integer 8888
\* and allow_remote_access is the boolean true.
RemotelyReachable ==
    Loaded =>
        /\ cfg["ip"] = StrV("0.0.0.0")
        /\ cfg["port"] = IntV(8888)
        /\ cfg["allow_remote_access"] = BoolV(TRUE)

RemotelyReachableWitness ==
    /\ Loaded
    /\ before["ip"] = StrV("localhost")
    /\ before["port"] = IntV(9999)
    /\ before["allow_remote_access"] = Unset

\* C3: after the load, allow_origin is the string '*' and
\* disable_check_xsrf is the boolean true.
CrossOriginRelaxed ==
    Loaded =>
        /\ cfg["allow_origin"] = StrV("*")
        /\ cfg["disable_check_xsrf"] = BoolV(TRUE)

CrossOriginRelaxedWitness ==
    /\ Loaded
    /\ before["allow_origin"] = StrV("")
    /\ before["disable_check_xsrf"] = BoolV(FALSE)

\* The three directives of the policy, in the order of the options table.
FrameAncestorsDirective == "frame-ancestors 'self' *;"

ScriptSrcDirective == "script-src 'self' 'unsafe-inline' 'unsafe-eval' *;"

StyleSrcDirective == "style-src 'self' 'unsafe-inline' *;"

\* C4: after the load, allow_iframe is the boolean true and
\* tornado_settings['headers']['Content-Security-Policy'] is exactly the
\* string made of the frame-ancestors, script-src and style-src directives,
\* in this order, separated by single spaces.
IframeEmbeddingPermitted ==
    Loaded =>
        /\ cfg["allow_iframe"] = BoolV(TRUE)
        /\ Get(Get(cfg["tornado_settings"], "headers"), "Content-Security-Policy")
               = StrV(FrameAncestorsDirective \o " " \o ScriptSrcDirective
                          \o " " \o StyleSrcDirective)

IframeEmbeddingPermittedWitness ==
    /\ Loaded
    /\ before["allow_iframe"] = BoolV(FALSE)
    /\ Get(Get(before["tornado_settings"], "headers"), "Content-Security-Policy")
           = StrV("default-src 'self'")

\* C5: the options assigned during a load are exactly the nine of the
\* table, and every other option has the value it had before the load.
ExactlyTheTable ==
    Loaded =>
        /\ {o \in Options : writes[o] > 0} =
               {"token", "password", "ip", "allow_origin",
                "allow_remote_access", "disable_check_xsrf", "port",
                "allow_iframe", "tornado_settings"}
        /\ \A o \in Options \ AssignedOptions : cfg[o] = before[o]

ExactlyTheTableWitness ==
    /\ Loaded
    /\ before["open_browser"] = Unset
    /\ before["root_dir"] = StrV("/home/jovyan")
    /\ cfg # before

\* C6: on an object that accepts attribute assignment the load never
\* reaches the error state, and a load in progress always reaches the end
\* of the file.
NoErrorCondition ==
    /\ [](accepts => status # "error")
    /\ ((accepts /\ status = "running") ~> Loaded)

NoErrorConditionWitness ==
    /\ accepts
    /\ Loaded
    /\ pc = Len(FileOptions)

\* C7: when the nine statements run in any order, each of the nine options
\* has been assigned exactly once at the end, no other option has been
\* assigned, and the configuration equals the one the order of the file
\* gives.
OrderIndependent ==
    Loaded =>
        /\ \A o \in AssignedOptions : writes[o] = 1
        /\ \A o \in Options \ AssignedOptions : writes[o] = 0
        /\ cfg = LoadFile(before)

OrderIndependentWitness ==
    /\ Loaded
    /\ ~inorder
    /\ before["ip"] = StrV("localhost")

\* C8: whatever tornado_settings held before the load, after the load it
\* has the single key 'headers', whose value has the single key
\* 'Content-Security-Policy'.
TornadoSettingsReplaced ==
    Loaded =>
        /\ Keys(cfg["tornado_settings"]) = {"headers"}
        /\ Keys(Get(cfg["tornado_settings"], "headers"))
               = {"Content-Security-Policy"}

TornadoSettingsReplacedWitness ==
    /\ Loaded
    /\ "autoreload" \in Keys(before["tornado_settings"])
    /\ "X-Frame-Options" \in Keys(Get(before["tornado_settings"], "headers"))

\* C9: the configuration after a load is the one the file gives from any
\* starting configuration that agrees with the actual one outside the nine
\* assigned options, and a second load leaves the configuration as the
\* first load made it.
IdempotentAndIndependent ==
    Loaded =>
        /\ \A s \in StartConfigs :
               (\A o \in Options \ AssignedOptions : s[o] = before[o])
                   => LoadFile(s) = cfg
        /\ (loads > 1 => cfg = before)

IdempotentAndIndependentWitness ==
    /\ Loaded
    /\ loads > 1
    /\ before["root_dir"] = StrV("/home/jovyan")

====
